---- MODULE Spec2Model ----
(***************************************************************************)
(* Model of the authentication backend of src/main.py: the signup and      *)
(* login handlers, the helpers they call and the "user" collection they    *)
(* read and write.  Handlers are plain `def` routes, so the framework runs *)
(* them on worker threads: several requests are in flight at once and      *)
(* interleave at their store calls.                                        *)
(*                                                                         *)
(* Strings whose content the code inspects (names, emails, passwords) are  *)
(* sequences of one-character strings, so that len(), lower() and strip() *)
(* are computed and not assumed.  Time is counted in minutes.              *)
(***************************************************************************)
EXTENDS Integers, Sequences, FiniteSets, TLC

VARIABLES
    db,      \* main.py:11   TRUE iff the imported store handle `db` is not None
    store,   \* the "user" collection: the documents in insertion order
    clock,   \* datetime.now(timezone.utc), in minutes
    pc,      \* per worker: "idle", or the source line its request is at / left by
    req,     \* per worker: the request payload being handled
    resp,    \* per worker: the HTTP response of the finished request
    claims   \* per worker: the caller's claims dict after create_access_token

vars == <<db, store, clock, pc, req, resp, claims>>

----------------------------------------------------------------------------
(* Bounds of the model *)

MaxUsers == 2
MaxClock == 1

Workers == {"w1", "w2"}

----------------------------------------------------------------------------
(* Program constants *)

ALGORITHM == "HS256"
SECRET_KEY == "dev-secret-change-me"
ACCESS_TOKEN_EXPIRE_MINUTES == 60 * 24 * 7

MinNameLen == 2
MaxNameLen == 80
MinPasswordLen == 6
MaxPasswordLen == 128

None == [type |-> "None"]

----------------------------------------------------------------------------
(* Strings *)

Rep(c, n) == [i \in 1..n |-> c]

UpperCase == <<"A","B","C","D","E","F","G","H","I","J","K","L","M",
               "N","O","P","Q","R","S","T","U","V","W","X","Y","Z">>
LowerCase == <<"a","b","c","d","e","f","g","h","i","j","k","l","m",
               "n","o","p","q","r","s","t","u","v","w","x","y","z">>

LowerChar(c) ==
    IF \E i \in 1..Len(UpperCase) : UpperCase[i] = c
    THEN LowerCase[CHOOSE i \in 1..Len(UpperCase) : UpperCase[i] = c]
    ELSE c

\* str.lower()
Lower(s) == [i \in 1..Len(s) |-> LowerChar(s[i])]

Whitespace == {" ", "\t", "\n", "\r"}

RECURSIVE LStrip(_)
LStrip(s) ==
    IF s # <<>> /\ Head(s) \in Whitespace THEN LStrip(Tail(s)) ELSE s

RECURSIVE RStrip(_)
RStrip(s) ==
    IF s # <<>> /\ s[Len(s)] \in Whitespace
    THEN RStrip(SubSeq(s, 1, Len(s) - 1))
    ELSE s

\* str.strip()
Strip(s) == RStrip(LStrip(s))

\* str(x): a string stays itself, an identifier becomes its text
Str(x) == IF x.type = "str" THEN x ELSE [type |-> "str", of |-> x.type, n |-> x.n]

----------------------------------------------------------------------------
(* Request models and their validation *)

\* EmailStr: one "@" with a non-empty local part and a non-empty domain
IsEmail(s) ==
    /\ Cardinality({i \in 1..Len(s) : s[i] = "@"}) = 1
    /\ s[1] # "@"
    /\ s[Len(s)] # "@"

NameOk(s) == MinNameLen <= Len(s) /\ Len(s) <= MaxNameLen
PasswordOk(s) == MinPasswordLen <= Len(s) /\ Len(s) <= MaxPasswordLen

\* the fields of a signup payload that fail validation
SignupRequestErrors(p) ==
    (IF NameOk(p.name) THEN {} ELSE {"name"})
    \cup (IF IsEmail(p.email) THEN {} ELSE {"email"})
    \cup (IF PasswordOk(p.password) THEN {} ELSE {"password"})

\* the fields of a login payload that fail validation
LoginRequestErrors(p) ==
    (IF IsEmail(p.email) THEN {} ELSE {"email"})
    \cup (IF PasswordOk(p.password) THEN {} ELSE {"password"})

\* the framework's answer to a payload that fails validation
ValidationError(fields) == [status |-> 422, detail |-> fields]

\* raise HTTPException(status_code, detail)
HTTPException(status_code, detail) == [status |-> status_code, detail |-> detail]

\* a handler's return value under response_model=AuthResponse
AuthResponse(token, user) == [status |-> 200, token |-> token, user |-> user]

----------------------------------------------------------------------------
(* Helpers *)

\* pwd_context.hash: the hash names its scheme and carries what verify needs;
\* the salt is left out, verify's answer does not depend on it
hash_password(password) ==
    [scheme |-> "bcrypt", secret |-> password]

\* pwd_context.verify
verify_password(password, password_hash) ==
    /\ password_hash.scheme = "bcrypt"
    /\ password_hash.secret = password

\* jwt.encode: the signed bundle; decoding it gives back `payload`
JwtEncode(payload, key, algorithm) ==
    [payload |-> payload, key |-> key, alg |-> algorithm]

\* dict.update({"exp": expire})
WithExp(d, expire) ==
    [k \in DOMAIN d \cup {"exp"} |-> IF k = "exp" THEN expire ELSE d[k]]

\* create_access_token without the copy: the caller's dict gets the expiry
create_access_token_in_place(data, expires_delta, now) ==
    LET delta == IF expires_delta = None \/ expires_delta = 0
                 THEN ACCESS_TOKEN_EXPIRE_MINUTES
                 ELSE expires_delta
        to_encode == WithExp(data, now + delta)
    IN  [token |-> JwtEncode(to_encode, SECRET_KEY, ALGORITHM),
         data  |-> to_encode]

\* create_access_token(data, expires_delta) called at time `now`:
\* the token, and the caller's dict as the call leaves it
create_access_token(data, expires_delta, now) ==
    LET to_encode == data
        delta == IF expires_delta = None \/ expires_delta = 0
                 THEN ACCESS_TOKEN_EXPIRE_MINUTES
                 ELSE expires_delta
        expire == now + delta
    IN  [token |-> JwtEncode(WithExp(to_encode, expire), SECRET_KEY, ALGORITHM),
         data  |-> data]

----------------------------------------------------------------------------
(* The store gateway (database.py) *)

\* the identifier the store generates for its next document
NextId(docs) == [type |-> "ObjectId", n |-> Len(docs) + 1]

\* get_documents("user", {"email": email}, limit): the possible results,
\* each a list of at most `limit` matching documents
get_documents(docs, email, limit) ==
    LET hits == {i \in 1..Len(docs) : docs[i].email = email}
    IN  IF hits = {} \/ limit = 0 THEN {<<>>}
        ELSE {<<docs[i]>> : i \in hits}

\* create_document("user", doc): the collection afterwards and the new id
create_document(docs, doc) ==
    LET id == NextId(docs)
        stored == [k \in DOMAIN doc \cup {"_id"} |->
                      IF k = "_id" THEN id ELSE doc[k]]
    IN  [docs |-> Append(docs, stored), id |-> id]

----------------------------------------------------------------------------
(* Inputs *)

ShortName == <<"a">>
BlankName == <<" ", " ">>
PaddedName == <<" ", "a", "n">>
LongName == Rep("a", MaxNameLen + 1)

EmailA == <<"a", "@", "x">>
EmailAUpper == <<"A", "@", "X">>
EmailB == <<"b", "@", "x">>
NotAnEmail == <<"a", "x">>

Password1 == <<"s","e","c","r","e","t">>
Password2 == <<"S","e","c","r","e","t">>
ShortPassword == <<"s","h","o","r","t">>
LongPassword == Rep("p", MaxPasswordLen + 1)

\* every valid email and password, each kind of name, and each way of
\* failing validation
SignupPayloads ==
    [op : {"signup"}, name : {PaddedName},
     email : {EmailA, EmailAUpper, EmailB}, password : {Password1, Password2}]
    \cup [op : {"signup"}, name : {BlankName, ShortName, LongName},
          email : {EmailA}, password : {Password1}]
    \cup [op : {"signup"}, name : {PaddedName},
          email : {NotAnEmail}, password : {Password1}]
    \cup [op : {"signup"}, name : {PaddedName},
          email : {EmailA}, password : {ShortPassword, LongPassword}]

LoginPayloads ==
    [op : {"login"}, email : {EmailA, EmailAUpper, EmailB},
     password : {Password1, Password2}]
    \cup [op : {"login"}, email : {NotAnEmail}, password : {Password1}]
    \cup [op : {"login"}, email : {EmailA},
          password : {ShortPassword, LongPassword}]

NoRequest == [op |-> "none"]
NoResponse == [status |-> 0]

----------------------------------------------------------------------------
(* The handlers' building blocks *)

\* lines 118 and 152
DatabaseNotConfiguredConflated == HTTPException(401, "Invalid email or password")
DatabaseNotConfigured == HTTPException(500, "Database not configured")

\* line 123
EmailAlreadyRegistered == HTTPException(400, "Email already registered")

\* line 156
UnknownEmailRevealed == HTTPException(404, "User not found")
UnknownEmail == HTTPException(401, "Invalid email or password")

\* line 160
WrongPassword == HTTPException(401, "Invalid email or password")

\* dict.get(key, default)
Get(d, key, default) == IF key \in DOMAIN d THEN d[key] ELSE default

\* signup, lines 125-131
UserDoc(payload) ==
    [name |-> Strip(payload.name),
     email |-> Lower(payload.email),
     password_hash |-> hash_password(payload.password),
     is_active |-> TRUE,
     role |-> "user"]

\* signup, line 133, were the insert turned into replace-by-email
UpsertUser(docs, user_doc) ==
    LET keep == SelectSeq(docs, LAMBDA d : d.email # user_doc.email)
        id == NextId(docs)
    IN  [docs |-> Append(keep, [k \in DOMAIN user_doc \cup {"_id"} |->
                                   IF k = "_id" THEN id ELSE user_doc[k]]),
         id |-> id]

\* signup, line 133
InsertUser(docs, user_doc) == create_document(docs, user_doc)

\* signup, line 135
SignupToken(user_id, user_doc, now) ==
    create_access_token([sub |-> Str(user_id), email |-> user_doc.email],
                        None, now)

\* signup, lines 138-144, were the stored document returned as it is
SignupWholeUser(user_id, user_doc) ==
    [k \in DOMAIN user_doc \cup {"_id"} |->
        IF k = "_id" THEN user_id ELSE user_doc[k]]

\* signup, lines 138-144
SignupPublicUser(user_id, user_doc) ==
    [_id |-> user_id,
     name |-> user_doc.name,
     email |-> user_doc.email,
     is_active |-> user_doc.is_active,
     role |-> user_doc.role]

\* login, line 162
LoginToken(user, now) ==
    create_access_token([sub |-> Str(Get(user, "_id", None)),
                         email |-> Get(user, "email", None)],
                        None, now)

\* login, lines 164-170
LoginPublicUser(user) ==
    [_id |-> Str(Get(user, "_id", None)),
     name |-> Get(user, "name", None),
     email |-> Get(user, "email", None),
     is_active |-> Get(user, "is_active", TRUE),
     role |-> Get(user, "role", "user")]

----------------------------------------------------------------------------
(* State machine *)

Init ==
    /\ db \in BOOLEAN
    /\ store = <<>>
    /\ clock = 0
    /\ pc = [w \in Workers |-> "idle"]
    /\ req = [w \in Workers |-> NoRequest]
    /\ resp = [w \in Workers |-> NoResponse]
    /\ claims = [w \in Workers |-> None]

\* the signups that passed the existence check and have not inserted yet
InFlight == {w \in Workers : pc[w] = "signup:133"}

\* the request of worker w ends at `line` with `response`
Finish(w, line, response) ==
    /\ pc' = [pc EXCEPT ![w] = line]
    /\ resp' = [resp EXCEPT ![w] = response]

\* signup, lines 116-123, with the existence lookup left out
SignupCheckNoLookup(w, payload) ==
    /\ pc[w] = "idle"
    /\ req' = [req EXCEPT ![w] = payload]
    /\ UNCHANGED <<db, store, clock, claims>>
    /\ IF SignupRequestErrors(payload) # {}
       THEN Finish(w, "signup:116", ValidationError(SignupRequestErrors(payload)))
       ELSE IF ~db
       THEN Finish(w, "signup:118", DatabaseNotConfigured)
       ELSE /\ Len(store) + Cardinality(InFlight) < MaxUsers
            /\ pc' = [pc EXCEPT ![w] = "signup:133"]
            /\ UNCHANGED resp

\* signup, lines 116-123: validation, the handle check, the existence lookup
SignupCheck(w, payload) ==
    /\ pc[w] = "idle"
    /\ req' = [req EXCEPT ![w] = payload]
    /\ UNCHANGED <<db, store, clock, claims>>
    /\ IF SignupRequestErrors(payload) # {}
       THEN Finish(w, "signup:116", ValidationError(SignupRequestErrors(payload)))
       ELSE IF ~db
       THEN Finish(w, "signup:118", DatabaseNotConfigured)
       ELSE \E existing \in get_documents(store, Lower(payload.email), 1) :
              IF existing # <<>>
              THEN Finish(w, "signup:123", EmailAlreadyRegistered)
              ELSE /\ Len(store) + Cardinality(InFlight) < MaxUsers
                   /\ pc' = [pc EXCEPT ![w] = "signup:133"]
                   /\ UNCHANGED resp

\* signup, lines 125-146, were the existence check made again at the insert
SignupInsertRechecked(w) ==
    /\ pc[w] = "signup:133"
    /\ UNCHANGED <<db, clock, req>>
    /\ IF \E i \in 1..Len(store) : store[i].email = Lower(req[w].email)
       THEN /\ Finish(w, "signup:123", EmailAlreadyRegistered)
            /\ UNCHANGED <<store, claims>>
       ELSE LET user_doc == UserDoc(req[w])
                created == InsertUser(store, user_doc)
                issued == SignupToken(created.id, user_doc, clock)
            IN  /\ store' = created.docs
                /\ claims' = [claims EXCEPT ![w] = issued.data]
                /\ Finish(w, "signup:146",
                          AuthResponse(issued.token,
                                       SignupPublicUser(created.id, user_doc)))

\* signup, lines 125-146: build the document, insert it, issue the token
SignupInsert(w) ==
    /\ pc[w] = "signup:133"
    /\ LET user_doc == UserDoc(req[w])
           created == InsertUser(store, user_doc)
           user_id == created.id
           issued == SignupToken(user_id, user_doc, clock)
           public_user == SignupPublicUser(user_id, user_doc)
       IN  /\ store' = created.docs
           /\ claims' = [claims EXCEPT ![w] = issued.data]
           /\ Finish(w, "signup:146", AuthResponse(issued.token, public_user))
    /\ UNCHANGED <<db, clock, req>>

\* login, lines 150-172
Login(w, payload) ==
    /\ pc[w] = "idle"
    /\ req' = [req EXCEPT ![w] = payload]
    /\ UNCHANGED <<db, store, clock>>
    /\ IF LoginRequestErrors(payload) # {}
       THEN /\ Finish(w, "login:150", ValidationError(LoginRequestErrors(payload)))
            /\ UNCHANGED claims
       ELSE IF ~db
       THEN /\ Finish(w, "login:152", DatabaseNotConfigured)
            /\ UNCHANGED claims
       ELSE \E users \in get_documents(store, Lower(payload.email), 1) :
              IF users = <<>>
              THEN /\ Finish(w, "login:156", UnknownEmail)
                   /\ UNCHANGED claims
              ELSE LET user == users[1] IN
                   IF ~verify_password(payload.password,
                                       Get(user, "password_hash", [scheme |-> ""]))
                   THEN /\ Finish(w, "login:160", WrongPassword)
                        /\ UNCHANGED claims
                   ELSE LET issued == LoginToken(user, clock)
                            public_user == LoginPublicUser(user)
                        IN  /\ claims' = [claims EXCEPT ![w] = issued.data]
                            /\ Finish(w, "login:172",
                                      AuthResponse(issued.token, public_user))

\* the response is sent and the worker takes the next request
Return(w) ==
    /\ pc[w] \notin {"idle", "signup:133"}
    /\ pc' = [pc EXCEPT ![w] = "idle"]
    /\ req' = [req EXCEPT ![w] = NoRequest]
    /\ resp' = [resp EXCEPT ![w] = NoResponse]
    /\ claims' = [claims EXCEPT ![w] = None]
    /\ UNCHANGED <<db, store, clock>>

\* time passes
Tick ==
    /\ clock < MaxClock
    /\ clock' = clock + 1
    /\ UNCHANGED <<db, store, pc, req, resp, claims>>

Next ==
    \/ \E w \in Workers, payload \in SignupPayloads : SignupCheck(w, payload)
    \/ \E w \in Workers : SignupInsert(w)
    \/ \E w \in Workers, payload \in LoginPayloads : Login(w, payload)
    \/ \E w \in Workers : Return(w)
    \/ Tick

Spec == Init /\ [][Next]_vars

----------------------------------------------------------------------------
(* Properties *)

\* the positions of the documents stored under `email`
StoredAt(docs, email) == {i \in 1..Len(docs) : docs[i].email = email}

\* worker w takes up a request of kind `op` in this step
Starts(w, op) == pc[w] = "idle" /\ pc'[w] # "idle" /\ req'[w].op = op

\* worker w leaves line 133 in this step
Inserts(w) == pc[w] = "signup:133" /\ pc'[w] # "signup:133"

\* C1: no two stored User records have the same lowercase email, whatever
\* the interleaving of the requests.
NoDuplicateEmails ==
    \A i, j \in 1..Len(store) :
        i # j => Lower(store[i].email) # Lower(store[j].email)

\* C2: a signup handled when the store already holds a record whose email
\* equals the payload's up to letter case fails with status 400 and detail
\* "Email already registered", inserts nothing and returns no token.
DuplicateSignupRejected ==
    [][\A w \in Workers :
         ( /\ Starts(w, "signup")
           /\ SignupRequestErrors(req'[w]) = {}
           /\ db
           /\ \E i \in 1..Len(store) :
                 Lower(store[i].email) = Lower(req'[w].email) )
         => ( /\ pc'[w] = "signup:123"
              /\ resp'[w] = [status |-> 400, detail |-> "Email already registered"]
              /\ "token" \notin DOMAIN resp'[w]
              /\ store' = store )]_vars

\* C2 happens: a signup was refused for an email stored in another letter case.
DuplicateSignupSeen ==
    \E w \in Workers :
        /\ pc[w] = "signup:123"
        /\ \E i \in 1..Len(store) :
              store[i].email # req[w].email /\ store[i].email = Lower(req[w].email)

\* C3: once a signup with email e and password p has succeeded with id u
\* (the store holds its record), every later login with a letter-case variant
\* of e and with p succeeds, and its response and its token name user u and
\* the email lowercase(e).
LoginAfterSignupSucceeds ==
    [][\A w \in Workers :
         \A i \in 1..Len(store) :
            ( /\ Starts(w, "login")
              /\ store[i].email = Lower(req'[w].email)
              /\ verify_password(req'[w].password, store[i].password_hash) )
            => ( /\ pc'[w] = "login:172"
                 /\ resp'[w].status = 200
                 /\ resp'[w].user._id = Str(store[i]._id)
                 /\ resp'[w].token.payload.sub = Str(store[i]._id)
                 /\ resp'[w].user.email = Lower(req'[w].email) )]_vars

\* C4: a login refused because no user has the email and a login refused
\* because the password does not verify get the same response, status 401.
LoginFailuresIndistinguishable ==
    \A w, v \in Workers :
        (pc[w] = "login:156" /\ pc[v] = "login:160")
        => (resp[w] = resp[v] /\ resp[w].status = 401)

\* C4 happens: both kinds of refusal are on display at once.
BothLoginFailuresSeen ==
    \E w, v \in Workers :
        /\ pc[w] = "login:156"
        /\ pc[v] = "login:160"
        /\ StoredAt(store, Lower(req[v].email)) # {}
        /\ StoredAt(store, Lower(req[w].email)) = {}

\* C5: with the store handle unset, every request that reaches its handler
\* ends with status 500 "Database not configured", which is none of the other
\* errors, and nothing was looked up, inserted or issued.
UnavailableStoreRejectsAll ==
    ~db =>
        /\ store = <<>>
        /\ \A w \in Workers :
             /\ pc[w] \in {"idle", "signup:116", "signup:118", "login:150", "login:152"}
             /\ pc[w] = "signup:116" => SignupRequestErrors(req[w]) # {}
             /\ pc[w] = "login:150" => LoginRequestErrors(req[w]) # {}
             /\ claims[w] = None
             /\ "token" \notin DOMAIN resp[w]
             /\ pc[w] \in {"signup:118", "login:152"} =>
                   /\ resp[w] = [status |-> 500, detail |-> "Database not configured"]
                   /\ resp[w] \notin {EmailAlreadyRegistered, UnknownEmail, WrongPassword}

\* C5 happens: a signup and a login were both refused for the unset handle.
UnavailableStoreSeen ==
    /\ ~db
    /\ \E w, v \in Workers : pc[w] = "signup:118" /\ pc[v] = "login:152"

\* C6: a valid signup whose lowercased email is not in the store at its
\* lookup goes on to insert; the insert adds exactly one record and answers
\* with a token and a user that has the lowercased email, the id of the new
\* record, is_active true, role "user" and no password_hash.
FreshSignupSucceeds ==
    [][\A w \in Workers :
         /\ ( /\ Starts(w, "signup")
              /\ SignupRequestErrors(req'[w]) = {}
              /\ db
              /\ StoredAt(store, Lower(req'[w].email)) = {} )
            => (pc'[w] = "signup:133" /\ store' = store)
         /\ Inserts(w)
            => ( /\ pc'[w] = "signup:146"
                 /\ Len(store') = Len(store) + 1
                 /\ SubSeq(store', 1, Len(store)) = store
                 /\ resp'[w].status = 200
                 /\ "token" \in DOMAIN resp'[w]
                 /\ resp'[w].user.email = Lower(req[w].email)
                 /\ resp'[w].user._id = store'[Len(store')]._id
                 /\ store'[Len(store')].email = Lower(req[w].email)
                 /\ resp'[w].user.is_active = TRUE
                 /\ resp'[w].user.role = "user"
                 /\ "password_hash" \notin DOMAIN resp'[w].user )]_vars

\* C6 happens: a signup with an upper-case email has succeeded.
FreshSignupSeen ==
    \E w \in Workers :
        /\ pc[w] = "signup:146"
        /\ req[w].email # Lower(req[w].email)
        /\ resp[w].user.email = Lower(req[w].email)

\* C7: a token issued at clock time T by a successful signup or login has
\* exp = T + 10080 minutes, sub the string form of the id in the response and
\* email the lowercased email of that user; the dict the handler passed holds
\* sub and email and nothing else after the call.
TokenClaims ==
    [][\A w \in Workers :
         (pc'[w] \in {"signup:146", "login:172"} /\ pc'[w] # pc[w])
         => LET payload == resp'[w].token.payload
                user == resp'[w].user
            IN  /\ payload.exp = clock + 7 * 24 * 60
                /\ payload.sub = Str(user._id)
                /\ payload.sub.type = "str"
                /\ payload.email = user.email
                /\ payload.email = Lower(req'[w].email)
                /\ DOMAIN payload = {"sub", "email", "exp"}
                /\ claims'[w] = [sub |-> payload.sub, email |-> payload.email]]_vars

\* C7 happens: a signup and a login have both issued a token, one of them
\* after the clock had moved.
TokensSeen ==
    \E w, v \in Workers :
        /\ pc[w] = "signup:146"
        /\ pc[v] = "login:172"
        /\ resp[v].token.payload.exp > 7 * 24 * 60

\* C8: a signup that passed the existence check inserts and succeeds with a
\* token even when, by the time it inserts, the store already holds a record
\* with its email: the store then holds at least two records with it.
RacingSignupStillInserts ==
    [][\A w \in Workers :
         (Inserts(w) /\ StoredAt(store, Lower(req[w].email)) # {})
         => ( /\ pc'[w] = "signup:146"
              /\ resp'[w].status = 200
              /\ "token" \in DOMAIN resp'[w]
              /\ Cardinality(StoredAt(store', Lower(req[w].email))) >= 2 )]_vars

\* C8 happens: two concurrent signups for one lowercase email have both
\* succeeded with a token, and the store holds two records with that email.
DuplicateRaceSeen ==
    \E w, v \in Workers :
        /\ w # v
        /\ pc[w] = "signup:146" /\ pc[v] = "signup:146"
        /\ Lower(req[w].email) = Lower(req[v].email)
        /\ "token" \in DOMAIN resp[w] /\ "token" \in DOMAIN resp[v]
        /\ Len(store) = 2
        /\ store[1].email = store[2].email
        /\ store[1].email = Lower(req[w].email)

\* C9: every stored name is non-empty, 2 to 80 characters long, and has no
\* leading or trailing whitespace.
StoredNamesWellFormed ==
    \A i \in 1..Len(store) :
        LET name == store[i].name
        IN  /\ name # <<>>
            /\ 2 <= Len(name) /\ Len(name) <= 80
            /\ name[1] \notin Whitespace
            /\ name[Len(name)] \notin Whitespace

\* C10: the store changes only by a signup leaving line 133 with success, and
\* then by one record added at the end; every other step, and so every login,
\* every refused signup and every request refused by validation, leaves it
\* as it is; no stored record is changed or removed.
StoreOnlyGrowsBySignup ==
    [][/\ store' # store =>
            /\ \E w \in Workers : Inserts(w) /\ pc'[w] = "signup:146"
            /\ Len(store') = Len(store) + 1
            /\ SubSeq(store', 1, Len(store)) = store
       /\ \A w \in Workers :
            (pc'[w] # pc[w] /\ pc'[w] # "signup:146") => store' = store]_vars

\* C10 happens: with a record stored, a login was refused and a signup was
\* refused as a duplicate.
RefusalsWithRecordsSeen ==
    /\ Len(store) >= 1
    /\ \E w, v \in Workers : pc[w] = "login:160" /\ pc[v] = "signup:123"

====
